---- MODULE Spec2Model ----
(***************************************************************************)
(* Paginated fetch over the CurseForge API: the pagination delegate        *)
(* (src/official/request/pagination.rs), the endpoint request cycle        *)
(* (src/official/endpoints.rs) and the paginated stream that drives the    *)
(* delegate into one lazy sequence of records.                             *)
(*                                                                         *)
(* Option<T> is a sequence of length 0 (None) or 1 (Some).  A record of a  *)
(* page is an integer; results are records [ok, data, error].  The bytes   *)
(* of a response body are a record [junk, json]: the value the bytes       *)
(* encode and the stray text around it ("" when there is none).  usize is  *)
(* 64 bits wide and held as a word [top, low]: its upper and lower 32 bits, *)
(* each written as the signed integer with that bit pattern.  An i32 is an *)
(* integer.                                                                *)
(***************************************************************************)
EXTENDS Integers, Sequences, FiniteSets, TLC

VARIABLES
    delegate,   \* [index, page_size, pagination]: params.index, params.page_size, pagination
    buffer,     \* the stream's Item Buffer
    state,      \* the stream's state machine
    limit,      \* the stream's result cap
    inflight,   \* the page requests awaiting their response, oldest first
    server,     \* the remote side: [mode, total, page, enforce]
    yielded,    \* history: the items returned by next(), in order
    fetched,    \* history: the records of the pages the transport returned, in order
    fetches,    \* history: the number of page requests sent
    lastPage,   \* history: Option, the most recent page that decoded:
                \* [pagination, records, requested]
    params0,    \* history: the params the delegate was constructed from
    repeats,    \* history: the number of next() calls made on a terminal stream
    result,     \* history: what the last completed next() call returned
    seeks,      \* history: the values set_offset was called with, in order
    cancels,    \* history: the number of next() calls abandoned mid-fetch
    lastCall,   \* history: Option, the most recent endpoint call that returned:
                \* [request, response, outcome]
    requests,   \* history: the transport requests made by the endpoint calls
                \* that returned
    pair,       \* two streams over the same query, each a record [delegate,
                \* buffer, state, inflight, yielded, sent, steps]; <<>> when
                \* one stream runs on its own
    codec,      \* one decoding of a response body: [features, payload,
                \* outcome]; <<>> when nothing is decoded on its own
    call,       \* one call of a function of the crate on its own: [op,
                \* features, input, output]; <<>> when there is none
    consistent  \* history: every page that decoded had a descriptor that
                \* agreed with its records and with its request

vars == <<delegate, buffer, state, limit, inflight, server, yielded, fetched,
          fetches, lastPage, params0, repeats, result, seeks, cancels,
          lastCall, requests, pair, codec, call, consistent>>

\* ---------------------------------------------------------------- bounds
MaxFetches == 3
MaxPageSize == 3
MaxTotal == 5
MaxStubLen == 2
MaxStubFetches == 2
MaxRepeats == 2
NearLimit == 4
MaxInterruptions == 1
MaxRecords == 2

\* ------------------------------------------------------------- constants
API_PAGINATION_RESULTS_LIMIT == 10000

None == <<>>
Some(x) == <<x>>
Min(a, b) == IF a <= b THEN a ELSE b

\* ----------------------------------------------------- integer conversions
I32_MAX == 2147483647

I32_MIN == -I32_MAX - 1

Word(top, low) == [top |-> top, low |-> low]

\* The usize of value n, 0 <= n <= I32_MAX.
U(n) == Word(0, n)

\* Unsigned order of two 32-bit patterns.
ULess32(a, b) == IF (a < 0) = (b < 0) THEN a < b ELSE a >= 0

\* Unsigned order of two words.
ULess(x, y) ==
    \/ x.top # y.top /\ ULess32(x.top, y.top)
    \/ x.top = y.top /\ ULess32(x.low, y.low)

UMin(x, y) == IF ULess(y, x) THEN y ELSE x

\* 32-bit wrapping sum of two patterns.
Add32(a, b) ==
    IF a >= 0 /\ b >= 0 /\ a > I32_MAX - b THEN (a - I32_MAX - 1) + (b - I32_MAX - 1)
    ELSE IF a < 0 /\ b < 0 /\ a < I32_MIN - b THEN (a + I32_MAX + 1) + (b + I32_MAX + 1)
    ELSE a + b

\* 64-bit wrapping sum of two words.
UAdd(x, y) ==
    LET lo == Add32(x.low, y.low)
        carry == IF ULess32(lo, x.low) THEN 1 ELSE 0
    IN  Word(Add32(Add32(x.top, y.top), carry), lo)

\* `as usize` on an i32: sign-extends to 64 bits.
i32_as_usize(v) == Word(IF v < 0 THEN -1 ELSE 0, v)

\* `as i32` on a usize: keeps the low 32 bits.
usize_as_i32(w) == w.low

\* `as usize` on an i64 (held as an integer, so within the i32 range):
\* keeps the 64-bit pattern.
i64_as_usize(v) == Word(IF v < 0 THEN -1 ELSE 0, v)

\* ------------------------------------------------------------ the delegate
Ok(data) == [ok |-> TRUE, data |-> data, error |-> "none"]
Err(kind) == [ok |-> FALSE, data |-> <<>>, error |-> kind]

\* new starting every delegate at index 0.
new_from_zero(params) ==
    [index |-> Some(0), page_size |-> params.page_size, pagination |-> None]

\* pagination_delegate!::new
new(params) ==
    [index |-> IF params.index = None THEN Some(0) ELSE params.index,
     page_size |-> params.page_size,
     pagination |-> None]

Bytes(junk, json) == [junk |-> junk, json |-> json]

\* serde_json::from_slice: the value, when the bytes are exactly one JSON
\* document of the expected shape.
from_slice(bytes) == IF bytes.junk = "" THEN bytes.json ELSE None

\* endpoint! returning its parse error with an empty byte buffer.
endpoint_drops_bytes(response) ==
    IF ~response.sent
    THEN [ok |-> FALSE, data |-> <<>>, error |-> "Request", bytes |-> None, sends |-> 1]
    ELSE IF ~response.read
    THEN [ok |-> FALSE, data |-> <<>>, error |-> "panic", bytes |-> None, sends |-> 1]
    ELSE IF from_slice(response.bytes) = None
    THEN [ok |-> FALSE, data |-> <<>>, error |-> "Parsing",
          bytes |-> Some(Bytes("", None)), sends |-> 1]
    ELSE [ok |-> TRUE, data |-> from_slice(response.bytes)[1], error |-> "none",
          bytes |-> Some(response.bytes), sends |-> 1]

\* endpoint!: one request-response cycle; `response` is what the transport
\* produced: [sent, status, read, bytes].  send_async is awaited once; its
\* error is returned; reading the body is unwrapped; the status is not
\* looked at; the bytes go with both the decoded value and the parse error.
endpoint(response) ==
    IF ~response.sent
    THEN [ok |-> FALSE, data |-> <<>>, error |-> "Request", bytes |-> None, sends |-> 1]
    ELSE IF ~response.read
    THEN [ok |-> FALSE, data |-> <<>>, error |-> "panic", bytes |-> None, sends |-> 1]
    ELSE IF from_slice(response.bytes) = None
    THEN [ok |-> FALSE, data |-> <<>>, error |-> "Parsing",
          bytes |-> Some(response.bytes), sends |-> 1]
    ELSE [ok |-> TRUE, data |-> from_slice(response.bytes)[1], error |-> "none",
          bytes |-> Some(response.bytes), sends |-> 1]

Reverse(q) == [k \in 1..Len(q) |-> q[Len(q) + 1 - k]]

\* next_page handing the page's records over in reverse order.
next_page_reorders(self, response) ==
    LET r == endpoint(response) IN
    IF ~r.ok THEN [self |-> self, result |-> Err(r.error)]
    ELSE [self |-> [self EXCEPT !.pagination = Some(r.data.pagination)],
          result |-> Ok(Reverse(r.data.data))]

\* next_page handing over only the first record of the page.
next_page_truncates(self, response) ==
    LET r == endpoint(response) IN
    IF ~r.ok THEN [self |-> self, result |-> Err(r.error)]
    ELSE [self |-> [self EXCEPT !.pagination = Some(r.data.pagination)],
          result |-> Ok(IF r.data.data = <<>> THEN <<>> ELSE <<Head(r.data.data)>>)]

\* next_page clearing the stored descriptor before the request is made.
next_page_clears(self, response) ==
    LET r == endpoint(response) IN
    IF ~r.ok THEN [self |-> [self EXCEPT !.pagination = None], result |-> Err(r.error)]
    ELSE [self |-> [self EXCEPT !.pagination = Some(r.data.pagination)],
          result |-> Ok(r.data.data)]

\* next_page keeping the first descriptor it ever stored.
next_page_keeps_first(self, response) ==
    LET r == endpoint(response) IN
    IF ~r.ok THEN [self |-> self, result |-> Err(r.error)]
    ELSE [self |-> [self EXCEPT !.pagination =
                        IF self.pagination = None THEN Some(r.data.pagination)
                        ELSE self.pagination],
          result |-> Ok(r.data.data)]

\* next_page failing on a page that holds no record.
next_page_rejects_empty(self, response) ==
    LET r == endpoint(response) IN
    IF ~r.ok THEN [self |-> self, result |-> Err(r.error)]
    ELSE IF r.data.data = <<>> THEN [self |-> self, result |-> Err("Parsing")]
    ELSE [self |-> [self EXCEPT !.pagination = Some(r.data.pagination)],
          result |-> Ok(r.data.data)]

\* pagination_delegate!::next_page, given the transport's response to the
\* request built from self.params.
next_page(self, response) ==
    LET r == endpoint(response) IN
    IF ~r.ok THEN [self |-> self, result |-> Err(r.error)]
    ELSE [self |-> [self EXCEPT !.pagination = Some(r.data.pagination)],
          result |-> Ok(r.data.data)]

\* next_page dropping the stored descriptor before it awaits the response.
suspended_cleared(self) == [self EXCEPT !.pagination = None]

\* pagination_delegate!::next_page while it awaits the response: nothing of
\* self has been written yet.
suspended(self) == self

\* pagination_delegate!::offset
offset(self) == i32_as_usize(self.index[1])

\* set_offset leaving the index as it is.
set_offset_ignored(self, value) == self

\* pagination_delegate!::set_offset
set_offset(self, value) == [self EXCEPT !.index = Some(usize_as_i32(value))]

\* total_items never reporting a total.
total_items_unknown(self) == None

\* pagination_delegate!::total_items
total_items(self) ==
    IF self.pagination = None THEN None
    ELSE Some(UMin(U(API_PAGINATION_RESULTS_LIMIT),
                   i64_as_usize(self.pagination[1].total_count)))

\* size_hint reporting the descriptor's total_count whatever the limit.
size_hint_uncapped(pagination, cap) ==
    IF pagination = None THEN [lower |-> U(0), upper |-> None]
    ELSE [lower |-> U(0), upper |-> Some(i64_as_usize(pagination[1].total_count))]

\* PaginatedStream::size_hint over the stored descriptor and the limit given
\* to the constructor.
size_hint(pagination, cap) ==
    IF pagination = None THEN [lower |-> U(0), upper |-> None]
    ELSE [lower |-> U(0),
          upper |-> Some(UMin(U(cap), i64_as_usize(pagination[1].total_count)))]

\* The request next_page sends: the delegate's params as they stand.
Request(self) == [index |-> self.index[1], page_size |-> self.page_size]

\* ------------------------------------------------------------ the remote side
\* The records at positions i .. i + n - 1 of the result set; a record is
\* identified with its position.
Page(i, n) == [k \in 1..n |-> i + k - 1]

PageSizeOf(req) == IF req.page_size = None THEN server.page ELSE req.page_size[1]

Body(data, index, page_size, result_count, total_count) ==
    Some([data |-> data,
          pagination |-> [index |-> index, page_size |-> page_size,
                          result_count |-> result_count, total_count |-> total_count]])

Response(sent, status, body) ==
    [sent |-> sent, status |-> status, read |-> TRUE, bytes |-> Bytes("", body)]

\* A response whose body is not JSON.
Garbled(status, junk) ==
    [sent |-> TRUE, status |-> status, read |-> TRUE, bytes |-> Bytes(junk, None)]

\* A response whose body cannot be read to its end.
Interrupted(status) ==
    [sent |-> TRUE, status |-> status, read |-> FALSE, bytes |-> Bytes("", None)]

\* A server holding server.total records that answers every request by its
\* contract; with server.enforce it rejects a window that reaches past the
\* documented pagination limit.
ConformingResponse(req) ==
    LET S == PageSizeOf(req)
        i == req.index
        n == IF i >= server.total THEN 0 ELSE Min(S, server.total - i)
    IN  IF server.enforce /\ i + S > API_PAGINATION_RESULTS_LIMIT
        THEN Response(TRUE, 400, None)
        ELSE Response(TRUE, 200, Body(Page(i, n), i, S, n, server.total))

\* A stub that always reports totalCount = cap + 1000 and a full page.
CapStubResponse(req) ==
    LET S == PageSizeOf(req) IN
    Response(TRUE, 200, Body(Page(req.index, S), req.index, S, S, limit + 1000))

StubRecords == 1..2
StubPages == UNION {[1..n -> StubRecords] : n \in 0..MaxStubLen}
StubTotals == {0, 3, API_PAGINATION_RESULTS_LIMIT + 1}

\* A stub that may answer anything: a transport failure, a body that breaks
\* off, a non-success status with or without a page in its body, bytes that
\* do not decode, or a page whose descriptor agrees or disagrees with the
\* request and with its records (a result_count that is too large, or 0
\* beside records; an index that is not the one asked for).
StubResponses(req) ==
    {Response(FALSE, 0, None), Response(TRUE, 500, None), Response(TRUE, 200, None),
     Garbled(200, "<html>"), Garbled(404, "<html>"), Interrupted(200)}
    \cup {Response(TRUE, 500, Body(d, req.index, PageSizeOf(req), Len(d), 3)) :
            d \in StubPages}
    \cup {Response(TRUE, 200, Body(d, req.index, PageSizeOf(req), Len(d), t)) :
            d \in StubPages, t \in StubTotals}
    \cup {Response(TRUE, 200, Body(d, req.index, PageSizeOf(req), Len(d) + 2, t)) :
            d \in StubPages, t \in StubTotals}
    \cup {Response(TRUE, 200, Body(d, req.index + 1, PageSizeOf(req), Len(d), t)) :
            d \in StubPages, t \in StubTotals}
    \cup {Response(TRUE, 200, Body(d, req.index, PageSizeOf(req), 0,
                                   API_PAGINATION_RESULTS_LIMIT + 1)) :
            d \in StubPages}

Responses(req) ==
    CASE server.mode = "conforming" -> {ConformingResponse(req)}
      [] server.mode = "capstub" -> {CapStubResponse(req)}
      [] OTHER -> StubResponses(req)

\* -------------------------------------------------------------- the stream
\* effective_limit = min(global cap, known_total() or +infinity)
EffectiveLimit(self, cap) ==
    IF total_items(self) = None THEN U(cap) ELSE UMin(U(cap), total_items(self)[1])

LiveAlsoExhausted == state \in {"NotStarted", "Buffered", "Exhausted"}

LiveAlsoFailed == state \in {"NotStarted", "Buffered", "Failed"}

LiveAlsoFetching == state \in {"NotStarted", "Buffered", "Fetching"}

\* The states in which next() still does work.
Live == state \in {"NotStarted", "Buffered"}

FetchBudget == IF server.mode = "stub" THEN MaxStubFetches ELSE MaxFetches

\* next(), buffer non-empty: pop and return the front item.
NextPop ==
    /\ Live
    /\ buffer # <<>>
    /\ yielded' = Append(yielded, Head(buffer))
    /\ buffer' = Tail(buffer)
    /\ state' = "Buffered"
    /\ result' = "item"
    /\ UNCHANGED <<delegate, limit, inflight, server, fetched, fetches, lastPage,
                   params0, seeks, cancels, lastCall, requests, repeats, pair, codec, call, consistent>>

\* next(), buffer empty and the offset at the effective limit: end-of-sequence.
NextExhaust ==
    /\ Live
    /\ buffer = <<>>
    /\ ~ULess(offset(delegate), EffectiveLimit(delegate, limit))
    /\ state' = "Exhausted"
    /\ result' = "eos"
    /\ UNCHANGED <<delegate, buffer, limit, inflight, server, yielded, fetched,
                   fetches, lastPage, params0, seeks, cancels, lastCall, requests,
                   repeats, pair, codec, call, consistent>>

\* next(), buffer empty and more expected: fetch_next() sends one page request.
NextFetch ==
    /\ Live
    /\ buffer = <<>>
    /\ ULess(offset(delegate), EffectiveLimit(delegate, limit))
    /\ fetches < FetchBudget
    /\ inflight' = Append(inflight, Request(delegate))
    /\ fetches' = fetches + 1
    /\ state' = "Fetching"
    /\ result' = "pending"
    /\ UNCHANGED <<delegate, buffer, limit, server, yielded, fetched, lastPage,
                   params0, seeks, cancels, lastCall, requests, repeats, pair, codec, call, consistent>>

\* The descriptor of a page agrees with the page and with its request:
\* result_count is the number of records, index the offset asked for.
Consistent(req, body) ==
    /\ body.pagination.result_count = Len(body.data)
    /\ body.pagination.index = req.index

\* The response arrives and next() resumes: on success the descriptor is
\* replaced, the offset advances by its result_count, the records fill the
\* buffer and the front item is returned (end-of-sequence when there is
\* none); on failure, or when the endpoint panics, the stream is Failed.
FetchReturn ==
    /\ state = "Fetching"
    /\ \E response \in Responses(inflight[1]) :
        LET np == next_page(delegate, response)
            moved == set_offset(np.self,
                                UAdd(offset(np.self),
                                     i32_as_usize(np.self.pagination[1].result_count)))
            items == np.result.data
            decoded == response.sent /\ response.read /\ from_slice(response.bytes) # None
            body == from_slice(response.bytes)[1]
        IN  /\ inflight' = Tail(inflight)
            /\ lastCall' = Some([request |-> inflight[1], response |-> response,
                                  outcome |-> endpoint(response)])
            /\ requests' = requests + endpoint(response).sends
            /\ fetched' = IF decoded THEN fetched \o body.data ELSE fetched
            /\ consistent' = (consistent /\ (decoded => Consistent(inflight[1], body)))
            /\ lastPage' = IF decoded
                           THEN Some([pagination |-> body.pagination,
                                      records |-> Len(body.data),
                                      requested |-> inflight[1].index])
                           ELSE lastPage
            /\ IF ~np.result.ok
               THEN /\ delegate' = np.self
                    /\ state' = "Failed"
                    /\ result' = IF np.result.error = "panic" THEN "panic" ELSE "error"
                    /\ UNCHANGED <<buffer, yielded>>
               ELSE /\ delegate' = moved
                    /\ IF items = <<>>
                       THEN /\ state' = "Exhausted"
                            /\ result' = "eos"
                            /\ UNCHANGED <<buffer, yielded>>
                       ELSE /\ state' = "Buffered"
                            /\ result' = "item"
                            /\ yielded' = Append(yielded, Head(items))
                            /\ buffer' = Tail(items)
    /\ UNCHANGED <<limit, server, fetches, params0, repeats, seeks, cancels, pair, codec, call>>

\* next() on an Exhausted stream: end-of-sequence again, nothing is sent.
NextExhausted ==
    /\ state = "Exhausted"
    /\ repeats < MaxRepeats
    /\ repeats' = repeats + 1
    /\ result' = "eos"
    /\ UNCHANGED <<delegate, buffer, state, limit, inflight, server, yielded,
                   fetched, fetches, lastPage, params0, seeks, cancels, lastCall,
                   requests, pair, codec, call, consistent>>

\* next() on a Failed stream: nothing is sent; whether the caller sees
\* end-of-sequence or the error again is left open.
NextFailed ==
    /\ state = "Failed"
    /\ repeats < MaxRepeats
    /\ repeats' = repeats + 1
    /\ result' \in {"eos", "error"}
    /\ UNCHANGED <<delegate, buffer, state, limit, inflight, server, yielded,
                   fetched, fetches, lastPage, params0, seeks, cancels, lastCall,
                   requests, pair, codec, call, consistent>>

\* The offsets a caller seeks to: 1, 2^31 and 2^32.
SeekValues == {U(1), Word(0, I32_MIN), Word(1, 0)}

\* The caller seeks between two next() calls: set_offset on the delegate.
\* Seeks are explored against the servers that answer one way only.
SetOffset ==
    /\ Live
    /\ server.mode # "stub"
    /\ Len(seeks) + cancels < MaxInterruptions
    /\ \E v \in SeekValues :
         /\ delegate' = set_offset(delegate, v)
         /\ seeks' = Append(seeks, v)
    /\ UNCHANGED <<buffer, state, limit, inflight, server, yielded, fetched, fetches,
                   lastPage, params0, repeats, result, cancels, lastCall, requests,
                   pair, codec, call, consistent>>

\* The caller abandons a next() call whose page fetch is in flight: the
\* request is dropped with the call and the stream is as it was before it.
Cancel ==
    /\ state = "Fetching"
    /\ Len(seeks) + cancels < MaxInterruptions
    /\ cancels' = cancels + 1
    /\ delegate' = suspended(delegate)
    /\ inflight' = Tail(inflight)
    /\ state' = IF yielded = <<>> THEN "NotStarted" ELSE "Buffered"
    /\ result' = "cancelled"
    /\ UNCHANGED <<buffer, limit, server, yielded, fetched, fetches, lastPage,
                   params0, repeats, seeks, lastCall, requests, pair, codec, call, consistent>>

\* ------------------------------------------------------------- the decoder
\* The Cargo features that set the policy on unknown fields; "default" is
\* neither of the two.
Features == {"deny-unknown-fields", "allow-unknown-fields", "default"}

UnknownNames == {"foo", "bar"}
IndexNames == <<"[0]", "[1]", "[2]", "[3]">>

\* The record types a paginated body is decoded into: the T of
\* PaginatedDataResponse<T>.
Targets == {"ProjectFile", "Project"}

\* Where a body of n records may carry a field the types do not declare: in
\* the envelope, in its pagination, in a record, in a file's first hash.
\* <<>> is a body with no such field.
ExtraPaths(n) ==
    {<<>>}
    \cup {<<f>> : f \in UnknownNames}
    \cup {<<"pagination", f>> : f \in UnknownNames}
    \cup {<<"data", IndexNames[k], f>> : k \in 1..n, f \in UnknownNames}
    \cup {<<"data", IndexNames[k], "hashes", "[0]", f>> : k \in 1..n, f \in UnknownNames}

\* The struct that is being deserialized where the path ends.
ShapeAt(target, path) ==
    CASE Len(path) = 1 -> "PaginatedDataResponse"
      [] Len(path) = 2 -> "Pagination"
      [] Len(path) = 3 -> target
      [] OTHER -> "FileHash"

\* Whether the struct carries serde(deny_unknown_fields): Pagination and
\* Project always, the others under the deny-unknown-fields feature.
Denies(shape, features) ==
    shape \in {"Pagination", "Project"} \/ features = "deny-unknown-fields"

\* The enumerations a record of the target type holds, its nested records
\* included: a file's release type and its hashes' algorithm; a project's
\* status and the mod loader of its file indexes.
EnumsOf(target) ==
    IF target = "ProjectFile" THEN {"FileReleaseType", "HashAlgorithm"}
    ELSE {"ProjectStatus", "ModLoaderType"}

\* Whether the enumeration has the #[serde(other)] Unknown variant: those of
\* types/files.rs and types/core.rs under allow-unknown-fields, those of
\* types/projects.rs never.
HasUnknown(enum, features) ==
    /\ features = "allow-unknown-fields"
    /\ enum \in {"FileReleaseType", "FileStatus", "HashAlgorithm", "FileRelationType",
                 "CoreStatus", "CoreApiStatus"}

\* serde_json::from_slice::<PaginatedDataResponse<T>> on a payload [junk,
\* json, extra, target, tag]: extra is the path of an undeclared field, tag
\* the enumeration whose value in the body is outside its declared
\* variants ("none" when every tag is known).  The error is a
\* serde_json::Error: for an unknown field its message names the field, and
\* names nothing of what encloses it.
decode(features, payload) ==
    IF from_slice(Bytes(payload.junk, payload.json)) = None
    THEN [ok |-> FALSE, value |-> None, other_fields |-> <<>>, unknown |-> "none",
          error |-> [kind |-> "syntax", names |-> <<>>]]
    ELSE IF payload.extra # <<>> /\ Denies(ShapeAt(payload.target, payload.extra), features)
    THEN [ok |-> FALSE, value |-> None, other_fields |-> <<>>, unknown |-> "none",
          error |-> [kind |-> "unknown field",
                     names |-> <<payload.extra[Len(payload.extra)]>>]]
    ELSE IF payload.tag # "none" /\ ~HasUnknown(payload.tag, features)
    THEN [ok |-> FALSE, value |-> None, other_fields |-> <<>>, unknown |-> "none",
          error |-> [kind |-> "unknown variant", names |-> <<>>]]
    ELSE [ok |-> TRUE, value |-> payload.json,
          other_fields |-> IF features = "allow-unknown-fields"
                           THEN payload.extra ELSE <<>>,
          unknown |-> payload.tag,
          error |-> [kind |-> "none", names |-> <<>>]]

\* The response bodies handed to the decoder: not JSON at all, or a page of
\* n records that is as declared, or carries one undeclared field, or
\* carries one tag outside its enumeration.
Payloads ==
    {[junk |-> j, json |-> None, extra |-> <<>>, target |-> t, tag |-> "none"] :
        j \in {"", "<html>"}, t \in Targets}
    \cup UNION {{[junk |-> j,
                  json |-> Body(Page(0, n), 0, MaxRecords, n, n),
                  extra |-> x, target |-> "ProjectFile", tag |-> "none"] :
                    j \in {"", "<html>"}, x \in ExtraPaths(n)}
               : n \in 1..MaxRecords}
    \cup UNION {{[junk |-> j,
                  json |-> Body(Page(0, n), 0, MaxRecords, n, n),
                  extra |-> x, target |-> "Project", tag |-> "none"] :
                    j \in {"", "<html>"}, x \in {p \in ExtraPaths(n) : Len(p) <= 3}}
               : n \in 1..MaxRecords}
    \cup UNION {UNION {{[junk |-> "",
                         json |-> Body(Page(0, n), 0, MaxRecords, n, n),
                         extra |-> <<>>, target |-> t, tag |-> e] : e \in EnumsOf(t)}
                      : t \in Targets}
               : n \in 1..MaxRecords}

\* The body is decoded.
Decode ==
    /\ codec # <<>>
    /\ codec.outcome = None
    /\ codec' = [codec EXCEPT !.outcome = Some(decode(codec.features, codec.payload))]
    /\ UNCHANGED <<delegate, buffer, state, limit, inflight, server, yielded, fetched,
                   fetches, lastPage, params0, repeats, result, seeks, cancels,
                   lastCall, requests, pair, call, consistent>>

\* ------------------------------------------------------------ the fix-ups

\* A date-time string of a body: the wall-clock time it spells, in hours
\* since 0001-01-01T00:00:00, and the UTC offset it ends with, "none" when
\* it ends with none.
Offsets == {"none", "Z", "+01:00"}
OffsetHours(zone) == IF zone = "+01:00" THEN 1 ELSE 0
DateTimeString(local, zone) == [local |-> local, zone |-> zone]

\* The literal "0001-01-01T00:00:00" and the year.
Sentinel == DateTimeString(0, "none")
Year == 8760

\* <DateTime<Utc> as FromStr>::from_str: RFC 3339, the offset is required;
\* the value is the instant, the wall-clock time less the offset.
parse(string) ==
    IF string.zone = "none" THEN Err("input is not enough for unique date and time")
    ELSE Ok(string.local - OffsetHours(string.zone))

\* <DateTime<Utc> as Serialize>::serialize: the instant in UTC, ending in Z.
format(instant) == DateTimeString(instant, "Z")

\* A JSON value that is null or a string is None or Some(string).
\* fixes::nullable_string: the string, and None for null and for "".
nullable_string(json) ==
    IF json # None /\ json[1] = "" THEN None ELSE json

\* The bodies of one SortableGameVersion: its five declared fields and at
\* most one that is not declared.
NullableStrings == {None, Some(""), Some("1.18")}
SortableGameVersions ==
    [gameVersionName : {"1.18"},
     gameVersionPadded : NullableStrings,
     gameVersion : NullableStrings,
     gameVersionReleaseDate : {DateTimeString(2021 * Year, o) : o \in Offsets},
     gameVersionTypeId : {None, Some(1)},
     extra : {None, Some([name |-> "foo", value |-> 1])}]

\* serde_json::from_value::<SortableGameVersion>: the derived Deserialize
\* with its two deserialize_with fix-ups and its flattened other_fields.
sortable_decode(features, json) ==
    IF json.extra # None /\ features = "deny-unknown-fields"
    THEN Err("unknown field")
    ELSE IF ~parse(json.gameVersionReleaseDate).ok
    THEN Err(parse(json.gameVersionReleaseDate).error)
    ELSE Ok([game_version_name |-> json.gameVersionName,
             game_version_padded |-> nullable_string(json.gameVersionPadded),
             game_version |-> nullable_string(json.gameVersion),
             game_version_release_date |-> parse(json.gameVersionReleaseDate).data,
             game_version_type_id |-> json.gameVersionTypeId,
             other_fields |-> IF features = "allow-unknown-fields"
                              THEN json.extra ELSE None])

sortable_encode_drops_other(value) ==
    [gameVersionName |-> value.game_version_name,
     gameVersionPadded |-> value.game_version_padded,
     gameVersion |-> value.game_version,
     gameVersionReleaseDate |-> format(value.game_version_release_date),
     gameVersionTypeId |-> value.game_version_type_id,
     extra |-> None]

\* serde_json::to_value(&SortableGameVersion): the derived Serialize; an
\* Option is null or its value, the flattened other_fields are emitted
\* beside the declared fields.
sortable_encode(value) ==
    [gameVersionName |-> value.game_version_name,
     gameVersionPadded |-> value.game_version_padded,
     gameVersion |-> value.game_version,
     gameVersionReleaseDate |-> format(value.game_version_release_date),
     gameVersionTypeId |-> value.game_version_type_id,
     extra |-> value.other_fields]

\* A body is decoded and what it decoded to is encoded again.
RoundTrips ==
    [op : {"round_trip"}, features : Features, input : SortableGameVersions,
     output : {None}]

RoundTrip ==
    /\ call # <<>>
    /\ call.op = "round_trip"
    /\ call.output = None
    /\ LET decoded == sortable_decode(call.features, call.input)
       IN  call' = [call EXCEPT !.output =
                        Some([decoded |-> decoded,
                              encoded |-> IF decoded.ok
                                          THEN Some(sortable_encode(decoded.data))
                                          ELSE None])]
    /\ UNCHANGED <<delegate, buffer, state, limit, inflight, server, yielded, fetched,
                   fetches, lastPage, params0, repeats, result, seeks, cancels,
                   lastCall, requests, pair, codec, consistent>>

nullable_datetime_parses_all(json) ==
    IF json = None THEN Err("invalid type: null")
    ELSE IF ~parse(json[1]).ok THEN Err(parse(json[1]).error)
    ELSE Ok(Some(parse(json[1]).data))

\* fixes::nullable_datetime on a JSON value that is null or a string:
\* deserialize_str with a visitor that has visit_str only, so null is a type
\* error; the sentinel is None, any other string is parsed.
nullable_datetime(json) ==
    IF json = None THEN Err("invalid type: null")
    ELSE IF json[1] = Sentinel THEN Ok(None)
    ELSE IF ~parse(json[1]).ok THEN Err(parse(json[1]).error)
    ELSE Ok(Some(parse(json[1]).data))

\* The values handed to the fix-up: null, and date-time strings in year 1
\* and in 2021, with and without an offset.
NullableDatetimes ==
    [op : {"nullable_datetime"}, features : {"default"},
     input : {None} \cup {Some(DateTimeString(l, o)) : l \in {0, 2021 * Year}, o \in Offsets},
     output : {None}]

NullableDatetime ==
    /\ call # <<>>
    /\ call.op = "nullable_datetime"
    /\ call.output = None
    /\ call' = [call EXCEPT !.output = Some(nullable_datetime(call.input))]
    /\ UNCHANGED <<delegate, buffer, state, limit, inflight, server, yielded, fetched,
                   fetches, lastPage, params0, repeats, result, seeks, cancels,
                   lastCall, requests, pair, codec, consistent>>

\* several_body!("fileIds", i32, file_ids): the body of the batched request.
several_body(file_ids) == [path |-> "mods/files", fileIds |-> file_ids]

\* project_files_by_ids: endpoint! on POST mods/files, decoding a
\* DataResponse<Vec<ProjectFile>>; the JSON is [data, extra], the files by
\* their ids and at most one undeclared field of the envelope.
project_files_by_ids(features, file_ids, response) ==
    LET r == endpoint(response)
    IN  IF ~r.ok THEN [r EXCEPT !.data = None] @@ [sent |-> <<several_body(file_ids)>>]
        ELSE IF r.data.extra # None /\ features = "deny-unknown-fields"
        THEN [ok |-> FALSE, data |-> None, error |-> "Parsing", bytes |-> r.bytes,
              sends |-> r.sends, sent |-> <<several_body(file_ids)>>]
        ELSE [r EXCEPT !.data = Some([data |-> r.data.data,
                                      other_fields |-> IF features = "allow-unknown-fields"
                                                       THEN r.data.extra ELSE None])]
             @@ [sent |-> <<several_body(file_ids)>>]

\* project_file_by_id: the batched request for the one id, mapped to the
\* last of its files with the bytes and the other_fields as they came;
\* pop() of no file is unwrapped.
project_file_by_id(features, file_id, response) ==
    LET r == project_files_by_ids(features, <<file_id>>, response)
    IN  IF ~r.ok THEN r
        ELSE IF r.data[1].data = <<>>
        THEN [r EXCEPT !.ok = FALSE, !.data = None, !.error = "panic", !.bytes = None]
        ELSE [r EXCEPT !.data = Some([data |-> r.data[1].data[Len(r.data[1].data)],
                                      other_fields |-> r.data[1].other_fields])]

\* The file asked for, and what the transport may produce for the batched
\* request: nothing, a body that is not JSON or cannot be read, and bodies
\* of no file up to MaxRecords files, with and without an undeclared field.
FileId == 7
FilesBodies ==
    [data : {[k \in 1..n |-> FileId + n - k] : n \in 0..MaxRecords},
     extra : {None, Some([name |-> "foo", value |-> 1])}]
FilesResponses ==
    {Response(FALSE, 0, None), Response(TRUE, 404, None), Garbled(200, "<html>"),
     Interrupted(200)}
    \cup {Response(TRUE, 200, Some(b)) : b \in FilesBodies}

ProjectFileByIds ==
    [op : {"project_file_by_id"}, features : Features, input : FilesResponses,
     output : {None}]

ProjectFileById ==
    /\ call # <<>>
    /\ call.op = "project_file_by_id"
    /\ call.output = None
    /\ call' = [call EXCEPT !.output =
                    Some(project_file_by_id(call.features, FileId, call.input))]
    /\ UNCHANGED <<delegate, buffer, state, limit, inflight, server, yielded, fetched,
                   fetches, lastPage, params0, repeats, result, seeks, cancels,
                   lastCall, requests, pair, codec, consistent>>

\* An i64 of any size, as the two 32-bit halves of its two's-complement
\* pattern; `as usize` on it keeps the pattern, so a negative total is read
\* as 2^64 less its magnitude.
i64_word_as_usize(w) == Word(w.top, w.low)

total_items_word_uncapped(pagination) ==
    IF pagination = None THEN None
    ELSE Some(i64_word_as_usize(pagination[1].total_count))

\* pagination_delegate!::total_items over a stored descriptor whose
\* total_count is such a word.
total_items_word(pagination) ==
    IF pagination = None THEN None
    ELSE Some(UMin(U(API_PAGINATION_RESULTS_LIMIT),
                   i64_word_as_usize(pagination[1].total_count)))

\* The total_count values a descriptor is given here: -2^63, -2^31 - 1, -5,
\* -1, 0, 1, 9999, 10000, 10001, 2^31 - 1, 2^31, 2^32, 2^32 + 5, 2^63 - 1.
TotalCounts ==
    {Word(I32_MIN, 0), Word(-1, I32_MAX), Word(-1, -5), Word(-1, -1),
     Word(0, 0), Word(0, 1), Word(0, API_PAGINATION_RESULTS_LIMIT - 1),
     Word(0, API_PAGINATION_RESULTS_LIMIT), Word(0, API_PAGINATION_RESULTS_LIMIT + 1),
     Word(0, I32_MAX), Word(0, I32_MIN), Word(1, 0), Word(1, 5), Word(I32_MAX, -1)}

TotalItemsCalls ==
    [op : {"total_items"}, features : {"default"},
     input : {Some([index |-> 0, page_size |-> 50, result_count |-> n, total_count |-> t]) :
                n \in 0..MaxRecords, t \in TotalCounts},
     output : {None}]

TotalItems ==
    /\ call # <<>>
    /\ call.op = "total_items"
    /\ call.output = None
    /\ call' = [call EXCEPT !.output = Some(total_items_word(call.input))]
    /\ UNCHANGED <<delegate, buffer, state, limit, inflight, server, yielded, fetched,
                   fetches, lastPage, params0, repeats, result, seeks, cancels,
                   lastCall, requests, pair, codec, consistent>>

\* The calls made on their own.
Calls == RoundTrips \cup NullableDatetimes \cup ProjectFileByIds \cup TotalItemsCalls

\* ------------------------------------------------------------ two streams
Engines == {"a", "b"}

\* A stream just constructed over a new delegate.
Engine(params) ==
    [delegate |-> new(params), buffer |-> <<>>, state |-> "NotStarted",
     inflight |-> <<>>, yielded |-> <<>>, sent |-> <<>>, steps |-> 0]

\* Every stream driving the delegate of stream "a".
DelegateOfShared(p, who) == p["a"].delegate

\* The delegate a stream drives: its own; the struct owns its params and
\* its descriptor.
DelegateOf(p, who) == p[who].delegate

\* next() on stream e up to its return or its suspension on a page request.
Poll(e) ==
    IF e.buffer # <<>>
    THEN [e EXCEPT !.yielded = Append(@, Head(e.buffer)), !.buffer = Tail(@),
                   !.state = "Buffered", !.steps = @ + 1]
    ELSE IF ~ULess(offset(e.delegate), EffectiveLimit(e.delegate, limit))
    THEN [e EXCEPT !.state = "Exhausted", !.steps = @ + 1]
    ELSE IF Len(e.sent) < MaxFetches
    THEN [e EXCEPT !.inflight = Append(@, Request(e.delegate)),
                   !.sent = Append(@, Request(e.delegate)),
                   !.state = "Fetching", !.steps = @ + 1]
    ELSE e

\* next() on stream e resuming with the response to its page request.
Resume(e, response) ==
    LET np == next_page(e.delegate, response)
        moved == set_offset(np.self,
                            UAdd(offset(np.self),
                                 i32_as_usize(np.self.pagination[1].result_count)))
        items == np.result.data
    IN  IF ~np.result.ok
        THEN [e EXCEPT !.delegate = np.self, !.inflight = Tail(@),
                       !.state = "Failed", !.steps = @ + 1]
        ELSE IF items = <<>>
        THEN [e EXCEPT !.delegate = moved, !.inflight = Tail(@),
                       !.state = "Exhausted", !.steps = @ + 1]
        ELSE [e EXCEPT !.delegate = moved, !.inflight = Tail(@),
                       !.state = "Buffered", !.steps = @ + 1,
                       !.yielded = Append(@, Head(items)), !.buffer = Tail(items)]

\* One step of a stream that runs on its own against the conforming server.
Step(e) ==
    IF e.state \in {"NotStarted", "Buffered"} THEN Poll(e)
    ELSE IF e.state = "Fetching" THEN Resume(e, ConformingResponse(e.inflight[1]))
    ELSE e

RECURSIVE Run(_, _)
Run(e, n) == IF n = 0 THEN e ELSE Run(Step(e), n - 1)

\* The caller of stream `who` calls next().
PairPoll(who) ==
    LET e == [pair[who] EXCEPT !.delegate = DelegateOf(pair, who)] IN
    /\ e.state \in {"NotStarted", "Buffered"}
    /\ Poll(e) # e
    /\ pair' = [pair EXCEPT ![who] = Poll(e)]
    /\ UNCHANGED <<delegate, buffer, state, limit, inflight, server, yielded, fetched,
                   fetches, lastPage, params0, repeats, result, seeks, cancels,
                   lastCall, requests, codec, call, consistent>>

\* The response to the page request of stream `who` arrives.
PairResume(who) ==
    LET e == [pair[who] EXCEPT !.delegate = DelegateOf(pair, who)] IN
    /\ e.state = "Fetching"
    /\ pair' = [pair EXCEPT ![who] = Resume(e, ConformingResponse(e.inflight[1]))]
    /\ UNCHANGED <<delegate, buffer, state, limit, inflight, server, yielded, fetched,
                   fetches, lastPage, params0, repeats, result, seeks, cancels,
                   lastCall, requests, codec, call, consistent>>

\* ------------------------------------------------------------ specification
Caps == {1, 2, 3, 4, API_PAGINATION_RESULTS_LIMIT}
StartIndexes == {None, Some(0), Some(1), Some(API_PAGINATION_RESULTS_LIMIT - NearLimit)}
PageSizes == {None} \cup {Some(s) : s \in 1..MaxPageSize}
Totals == (0..MaxTotal) \cup {API_PAGINATION_RESULTS_LIMIT - 1,
                              API_PAGINATION_RESULTS_LIMIT,
                              API_PAGINATION_RESULTS_LIMIT + 2}

Servers ==
    {[mode |-> "conforming", total |-> t, page |-> s, enforce |-> e] :
        t \in Totals, s \in 1..MaxPageSize, e \in BOOLEAN}
    \cup {[mode |-> "capstub", total |-> 0, page |-> s, enforce |-> FALSE] :
        s \in 1..MaxPageSize}
    \cup {[mode |-> "stub", total |-> 0, page |-> 2, enforce |-> FALSE]}

\* One stream, just constructed, and the server it talks to.
Start ==
    /\ server \in Servers
    /\ limit \in (IF server.mode = "stub" THEN {API_PAGINATION_RESULTS_LIMIT} ELSE Caps)
    /\ \E i \in StartIndexes, s \in PageSizes :
         /\ server.mode = "stub" => (i = None /\ s = None)
         /\ params0 = [index |-> i, page_size |-> s]
         /\ delegate = new(params0)
    /\ buffer = <<>>
    /\ state = "NotStarted"
    /\ consistent = TRUE
    /\ inflight = None
    /\ yielded = <<>>
    /\ fetched = <<>>
    /\ fetches = 0
    /\ lastPage = None
    /\ repeats = 0
    /\ result = "none"
    /\ seeks = <<>>
    /\ cancels = 0
    /\ lastCall = None
    /\ requests = 0

Init == Start /\ pair = <<>> /\ codec = <<>> /\ call = <<>>

Next ==
    \/ NextPop
    \/ NextExhaust
    \/ NextFetch
    \/ FetchReturn
    \/ NextExhausted
    \/ NextFailed
    \/ SetOffset
    \/ Cancel

Spec == Init /\ [][Next]_vars

\* Two streams constructed from the same params against one conforming
\* server, their next() calls interleaved in every way.
PairInit ==
    /\ Start
    /\ server.mode = "conforming"
    /\ pair = [who \in Engines |-> Engine(params0)]
    /\ codec = <<>>
    /\ call = <<>>

PairNext == \E who \in Engines : PairPoll(who) \/ PairResume(who)

PairSpec == PairInit /\ [][PairNext]_vars

\* One response body, decoded once under one of the feature sets, or one
\* call of a function of the crate on one input.
DecodeInit ==
    /\ Start
    /\ server.mode = "stub"
    /\ pair = <<>>
    /\ \/ /\ call = <<>>
          /\ \E f \in Features, p \in Payloads :
               codec = [features |-> f, payload |-> p, outcome |-> None]
       \/ /\ codec = <<>>
          /\ call \in Calls

DecodeNext ==
    \/ Decode
    \/ RoundTrip
    \/ NullableDatetime
    \/ ProjectFileById
    \/ TotalItems

DecodeSpec == DecodeInit /\ [][DecodeNext]_vars

TypeOK ==
    /\ state \in {"NotStarted", "Fetching", "Buffered", "Exhausted", "Failed"}
    /\ result \in {"none", "pending", "item", "eos", "error", "panic", "cancelled"}
    /\ Len(delegate.index) = 1
    /\ Len(inflight) \in {0, 1}
    /\ (state = "Fetching") <=> (inflight # None)
    /\ Len(seeks) + cancels <= MaxInterruptions
    /\ Len(lastCall) \in {0, 1}
    /\ consistent \in BOOLEAN
    /\ call # <<>> =>
         call.op \in {"round_trip", "nullable_datetime", "project_file_by_id", "total_items"}

\* ------------------------------------------------------------------ claims
FromZero == offset(new(params0)) = U(0)

\* The caller has let every next() call finish and has not moved the offset.
Undisturbed == seeks = <<>> /\ cancels = 0

CeilDiv(a, b) == (a + b - 1) \div b

\* C1: the items yielded so far, followed by the items still buffered, are
\* exactly the concatenation of the fetched pages' records in fetch order.
C1_OrderPreserved == yielded \o buffer = fetched

C1_Witness ==
    /\ fetches = 2
    /\ Len(yielded) = 4
    /\ yielded = fetched
    /\ yielded[1] # yielded[2]
    /\ yielded[1] = yielded[3]

\* C2: with cap N and a stub that always reports totalCount = N + 1000 and
\* full pages, a stream started at offset 0 never yields more than N items
\* and has yielded exactly N when it signals end-of-sequence.
C2_CapEnforced ==
    (server.mode = "capstub" /\ FromZero /\ Undisturbed) =>
        /\ Len(yielded) + Len(buffer) <= limit
        /\ state = "Exhausted" => Len(yielded) = limit

\* C3: no page request reaches past the 10,000-result limit, and against a
\* conforming server the stream never returns an error.
C3_WithinServiceLimit ==
    (server.mode = "conforming" /\ limit = API_PAGINATION_RESULTS_LIMIT /\ Undisturbed) =>
        /\ inflight # None =>
             inflight[1].index + PageSizeOf(inflight[1]) <= API_PAGINATION_RESULTS_LIMIT
        /\ result # "error"

\* C4: once the stream is Exhausted, every later next() returns
\* end-of-sequence and sends no page request.
C4_IdempotentEnd ==
    [][state = "Exhausted" =>
        /\ state' = "Exhausted"
        /\ result' = "eos"
        /\ fetches' = fetches
        /\ inflight' = None]_vars

C4_Witness ==
    /\ state = "Exhausted"
    /\ repeats = MaxRepeats
    /\ lastPage # None
    /\ lastPage[1].records = 0
    /\ ULess(offset(delegate), EffectiveLimit(delegate, limit))

\* C5 as stated: against a conforming server of T <= cap records and page
\* size S, a stream started at offset 0 ends after exactly T items and
\* exactly ceil(T / S) fetches.
C5_FetchCount ==
    (server.mode = "conforming" /\ FromZero /\ server.total <= limit
        /\ Undisturbed /\ state = "Exhausted") =>
        /\ yielded = Page(0, server.total)
        /\ fetches = CeilDiv(server.total, PageSizeOf(Request(delegate)))

\* C5 amended: the same, except that an empty result set (T = 0) costs one
\* fetch, the one that returns the empty page.
C5_FetchCountAmended ==
    (server.mode = "conforming" /\ FromZero /\ server.total <= limit
        /\ Undisturbed /\ state = "Exhausted") =>
        /\ yielded = Page(0, server.total)
        /\ fetches = IF server.total = 0 THEN 1
                     ELSE CeilDiv(server.total, PageSizeOf(Request(delegate)))

C5_Witness ==
    /\ server.mode = "conforming"
    /\ Undisturbed
    /\ state = "Exhausted"
    /\ server.total = 5
    /\ PageSizeOf(Request(delegate)) = 2
    /\ yielded = <<0, 1, 2, 3, 4>>
    /\ fetches = 3

\* C6: once a fetch has failed, the stream stays Failed and sends no further
\* page request.
C6_FailedTerminal ==
    [][state = "Failed" =>
        /\ state' = "Failed"
        /\ fetches' = fetches
        /\ inflight' = None]_vars

C6_Witness == state = "Failed" /\ repeats >= 1 /\ fetches < FetchBudget

\* C7: when a fetch fails, every record of the pages fetched before it has
\* been yielded.
C7_NoDataLoss == state = "Failed" => (yielded = fetched /\ buffer = <<>>)

C7_Witness == state = "Failed" /\ Len(yielded) = 2 /\ fetches = 2

\* C8: a failed next_page leaves params.index and the stored descriptor as
\* they were, so offset() and total_items() answer as before.
C8_FailureKeepsCursor ==
    [][(state = "Fetching" /\ state' = "Failed") =>
        /\ delegate' = delegate
        /\ offset(delegate') = offset(delegate)
        /\ total_items(delegate') = total_items(delegate)]_vars

C8_Witness ==
    /\ state = "Failed"
    /\ fetches = 2
    /\ delegate.pagination # None
    /\ ULess(U(0), offset(delegate))

\* C9: a page whose descriptor disagrees with its records or with the
\* requested offset is never accepted: the call that fetched it fails.
Mismatched(p) ==
    \/ p.pagination.result_count # p.records
    \/ p.pagination.index # p.requested

C9_MismatchSurfaces ==
    (lastPage # None /\ Mismatched(lastPage[1])) => state = "Failed"

\* C10: total_items is None until a page has decoded, and from then on
\* min(10,000, total_count of the most recent decoded page's descriptor).
C10_KnownTotal ==
    total_items(delegate) =
        IF lastPage = None THEN None
        ELSE Some(U(Min(API_PAGINATION_RESULTS_LIMIT, lastPage[1].pagination.total_count)))

C10_Witness ==
    /\ fetches = 2
    /\ Len(fetched) = 3
    /\ lastPage # None
    /\ lastPage[1].pagination.total_count = API_PAGINATION_RESULTS_LIMIT + 1
    /\ total_items(delegate) = Some(U(API_PAGINATION_RESULTS_LIMIT))

\* C11: size_hint's lower bound is always 0; its upper bound is unknown
\* until a fetch has succeeded and from then on min(limit, total_count of the
\* most recent descriptor), whatever has been consumed or is still buffered.
C11_SizeHint ==
    /\ size_hint(delegate.pagination, limit).lower = U(0)
    /\ size_hint(delegate.pagination, limit).upper =
         IF lastPage = None THEN None
         ELSE Some(U(Min(limit, lastPage[1].pagination.total_count)))

C11_Witness ==
    /\ server.mode = "capstub"
    /\ limit = 4
    /\ Len(yielded) = 2
    /\ Len(buffer) = 1
    /\ lastPage # None
    /\ lastPage[1].pagination.total_count > limit
    /\ size_hint(delegate.pagination, limit).upper = Some(U(4))

\* C12: a new delegate stands at the index its caller supplied, or at 0 when
\* none was supplied, and holds no descriptor, so total_items is None; the
\* first page request carries that index.
C12_FreshDelegate ==
    LET d == new(params0)
        i == IF params0.index = None THEN 0 ELSE params0.index[1]
    IN  /\ d.index = Some(i)
        /\ offset(d) = U(i)
        /\ d.pagination = None
        /\ total_items(d) = None
        /\ (state = "NotStarted" /\ seeks = <<>>) => delegate = d
        /\ (fetches = 1 /\ seeks = <<>> /\ inflight # None) => inflight[1].index = i
        /\ (fetches = 1 /\ seeks = <<>> /\ lastCall # None) => lastCall[1].request.index = i

C12_Witness ==
    /\ params0.index = Some(1)
    /\ seeks = <<>>
    /\ fetches = 1
    /\ lastCall # None
    /\ lastCall[1].request.index = 1
    /\ lastCall[1].outcome.ok

\* C13: after set_offset(v), for every usize v, offset() returns v, the
\* stored descriptor and the page size are as before, and the request the
\* delegate would send carries offset v.
C13_SetOffsetExact ==
    [][Len(seeks') > Len(seeks) =>
        LET v == seeks'[Len(seeks')] IN
        /\ offset(delegate') = v
        /\ i32_as_usize(Request(delegate').index) = v
        /\ delegate'.pagination = delegate.pagination
        /\ delegate'.page_size = delegate.page_size]_vars

\* C14: a response with a non-success status makes the endpoint call return
\* a status error that carries the response's bytes, neither a parse error
\* nor a decoded value.
C14_StatusError ==
    (/\ lastCall # None
     /\ lastCall[1].response.sent
     /\ lastCall[1].response.read
     /\ lastCall[1].response.status \notin 200..299) =>
        /\ ~lastCall[1].outcome.ok
        /\ lastCall[1].outcome.error = "StatusNotOk"
        /\ lastCall[1].outcome.bytes = Some(lastCall[1].response.bytes)

\* C15: when a response with a success status carries a body that does not
\* decode, the endpoint call returns a parse error, a tag no transport
\* failure gets, together with the body's bytes as received; when the body
\* decodes, the call returns the decoded value together with those bytes.
C15_DecodeErrorCarriesBytes ==
    lastCall # None =>
        LET response == lastCall[1].response
            outcome == lastCall[1].outcome
            arrived == response.sent /\ response.read
        IN  /\ outcome.error = "Parsing" => arrived
            /\ (arrived /\ response.status \in 200..299) =>
                 /\ outcome.bytes = Some(response.bytes)
                 /\ IF response.bytes.junk # "" \/ response.bytes.json = None
                    THEN ~outcome.ok /\ outcome.error = "Parsing"
                    ELSE outcome.ok /\ outcome.data = response.bytes.json[1]

C15_Witness ==
    /\ lastCall # None
    /\ lastCall[1].response.status = 200
    /\ lastCall[1].response.bytes.junk = "<html>"
    /\ lastCall[1].outcome.error = "Parsing"
    /\ lastCall[1].outcome.bytes = Some(Bytes("<html>", None))
    /\ result = "error"

\* C16: every endpoint call that returns has made exactly one transport
\* request, and whenever the exchange failed (transport error, unreadable
\* body, non-success status, body that does not decode) the call returns a
\* tagged error, which next() hands to its caller.
C16_OneRequestErrorsTagged ==
    [][(Len(inflight') < Len(inflight) /\ cancels' = cancels) =>
        LET response == lastCall'[1].response
            outcome == lastCall'[1].outcome
            failed == \/ ~response.sent
                      \/ ~response.read
                      \/ response.status \notin 200..299
                      \/ response.bytes.junk # ""
                      \/ response.bytes.json = None
        IN  /\ requests' = requests + 1
            /\ failed =>
                 /\ ~outcome.ok
                 /\ outcome.error \in {"Request", "StatusNotOk", "Parsing"}
                 /\ result' = "error"]_vars

\* C17: at most one page request is in flight; a request is sent only by a
\* next() call that finds the buffer empty and nothing in flight; while the
\* buffer holds items no request is sent and next() returns the front item.
C17_OneFetchNoPrefetch ==
    [][/\ Len(inflight') <= 1
       /\ Len(inflight') > Len(inflight) =>
            /\ buffer = <<>>
            /\ inflight = <<>>
            /\ fetches' = fetches + 1
       /\ fetches' # fetches => Len(inflight') > Len(inflight)
       /\ buffer # <<>> =>
            /\ fetches' = fetches
            /\ inflight' = <<>>
            /\ yielded' # yielded =>
                 /\ yielded' = Append(yielded, Head(buffer))
                 /\ buffer' = Tail(buffer)]_vars

C17_Witness ==
    /\ Len(buffer) = 1
    /\ Len(yielded) = 5
    /\ fetches = 2
    /\ inflight = <<>>
    /\ result = "item"

\* C18: sending a page request and abandoning the next() call that sent it
\* both leave the offset, the stored descriptor and the buffer as they were;
\* the descriptor is replaced only by a fetch that succeeded, in the same
\* step that advances the offset by the new descriptor's result_count, and
\* the offset moves in no other step but a seek.
C18_CancelLeavesNoTrace ==
    [][/\ (Len(inflight') > Len(inflight) \/ cancels' # cancels) =>
            /\ delegate' = delegate
            /\ offset(delegate') = offset(delegate)
            /\ total_items(delegate') = total_items(delegate)
            /\ buffer' = buffer
       /\ cancels' # cancels => inflight' = <<>> /\ state' \in {"NotStarted", "Buffered"}
       /\ (delegate'.pagination # delegate.pagination
             \/ (delegate'.index # delegate.index /\ seeks' = seeks)) =>
            /\ Len(inflight') < Len(inflight)
            /\ lastCall'[1].outcome.ok
       /\ (Len(inflight') < Len(inflight) /\ cancels' = cancels
             /\ lastCall'[1].outcome.ok) =>
            /\ delegate'.pagination = Some(lastCall'[1].outcome.data.pagination)
            /\ offset(delegate') =
                 UAdd(offset(delegate),
                      i32_as_usize(lastCall'[1].outcome.data.pagination.result_count))]_vars

C18_Witness ==
    /\ result = "cancelled"
    /\ cancels = 1
    /\ state = "Buffered"
    /\ fetches = 2
    /\ buffer = <<>>
    /\ inflight = <<>>
    /\ delegate.pagination # None
    /\ offset(delegate) = U(Len(yielded))
    /\ Len(yielded) = 2

C20_StrictRejection ==
    (/\ codec # <<>>
     /\ codec.outcome # None
     /\ codec.features = "deny-unknown-fields"
     /\ codec.payload.junk = ""
     /\ codec.payload.json # None
     /\ codec.payload.extra # <<>>) =>
        /\ ~codec.outcome[1].ok
        /\ codec.outcome[1].value = None
        /\ codec.outcome[1].error.kind = "unknown field"
        /\ codec.outcome[1].error.names = codec.payload.extra

\* C21: under allow-unknown-fields, a body that carries an undeclared field
\* in any of its records, the envelope and the pagination descriptor
\* included, decodes, and the field is kept in the residual fields of the
\* record it sits in.
C21_LenientCaptures ==
    (/\ codec # <<>>
     /\ codec.outcome # None
     /\ codec.features = "allow-unknown-fields"
     /\ codec.payload.junk = ""
     /\ codec.payload.json # None
     /\ codec.payload.extra # <<>>) =>
        /\ codec.outcome[1].ok
        /\ codec.outcome[1].value = codec.payload.json
        /\ codec.outcome[1].other_fields = codec.payload.extra

\* C22: under allow-unknown-fields, a tag outside the declared variants of
\* any enumeration decodes to its Unknown variant and the body that holds
\* it decodes.
C22_LenientUnknownVariant ==
    (/\ codec # <<>>
     /\ codec.outcome # None
     /\ codec.features = "allow-unknown-fields"
     /\ codec.payload.tag # "none") =>
        /\ codec.outcome[1].ok
        /\ codec.outcome[1].unknown = codec.payload.tag

\* C23: with neither feature enabled, a body that carries an undeclared
\* field in any of its records decodes with the field dropped and nothing
\* kept of it, and a body with a tag outside its enumeration fails to
\* decode.
C23_IgnoreDropsFields ==
    (/\ codec # <<>>
     /\ codec.outcome # None
     /\ codec.features = "default"
     /\ codec.payload.junk = ""
     /\ codec.payload.json # None) =>
        /\ codec.payload.extra # <<>> =>
              /\ codec.outcome[1].ok
              /\ codec.outcome[1].value = codec.payload.json
              /\ codec.outcome[1].other_fields = <<>>
        /\ codec.payload.tag # "none" => ~codec.outcome[1].ok

\* The case of C24: a SortableGameVersion body with one undeclared field
\* was decoded under allow-unknown-fields and encoded again.
RoundTripped ==
    /\ call # <<>>
    /\ call.op = "round_trip"
    /\ call.features = "allow-unknown-fields"
    /\ call.input.extra # None
    /\ call.output # None
    /\ call.output[1].decoded.ok

\* C24 as stated: the re-encoded record has every declared field with the
\* value the body had, the two fields behind the nullable-string fix-up
\* included, and has the undeclared field again.
C24_RoundTripExact ==
    RoundTripped =>
        LET json == call.input
            again == call.output[1].encoded[1]
        IN  /\ again.gameVersionName = json.gameVersionName
            /\ again.gameVersionPadded = json.gameVersionPadded
            /\ again.gameVersion = json.gameVersion
            /\ parse(again.gameVersionReleaseDate) = parse(json.gameVersionReleaseDate)
            /\ again.gameVersionTypeId = json.gameVersionTypeId
            /\ again.extra = json.extra

\* C24, amended: the re-encoded record has every declared field with the
\* value the body had, except that a nullable-string field that was "" in
\* the body is null, and has the undeclared field again.
C24_RoundTrip ==
    RoundTripped =>
        LET json == call.input
            again == call.output[1].encoded[1]
            Nulled(string) == IF string = Some("") THEN None ELSE string
        IN  /\ again.gameVersionName = json.gameVersionName
            /\ again.gameVersionPadded = Nulled(json.gameVersionPadded)
            /\ again.gameVersion = Nulled(json.gameVersion)
            /\ parse(again.gameVersionReleaseDate) = parse(json.gameVersionReleaseDate)
            /\ again.gameVersionTypeId = json.gameVersionTypeId
            /\ again.extra = json.extra

C24_Witness ==
    /\ RoundTripped
    /\ call.input.gameVersionPadded = Some("")
    /\ call.input.gameVersion = Some("1.18")
    /\ call.input.gameVersionReleaseDate.zone = "+01:00"
    /\ call.output[1].encoded[1].gameVersionPadded = None
    /\ call.output[1].encoded[1].extra = Some([name |-> "foo", value |-> 1])

C26_FileById ==
    (/\ call # <<>>
     /\ call.op = "project_file_by_id"
     /\ call.output # None
     /\ call.input.sent
     /\ call.input.read
     /\ from_slice(call.input.bytes) # None) =>
        LET body == from_slice(call.input.bytes)[1]
            out == call.output[1]
            decodes == body.extra = None \/ call.features # "deny-unknown-fields"
        IN  /\ out.sent = <<[path |-> "mods/files", fileIds |-> <<FileId>>]>>
            /\ out.error # "panic"
            /\ (decodes /\ body.data = <<>>) => out.error = "Parsing"
            /\ (decodes /\ Len(body.data) = 1) =>
                  /\ out.ok
                  /\ out.data[1].data = body.data[1]
                  /\ out.bytes = Some(call.input.bytes)
                  /\ call.features = "allow-unknown-fields" =>
                        out.data[1].other_fields = body.extra

\* C27: when the page a next() call fetched decodes to no record, that call
\* returns end-of-sequence, not an error, and sends no further request,
\* whatever the page's total_count says of records that remain.
C27_EmptyPageEnds ==
    [][(/\ state = "Fetching"
        /\ cancels' = cancels
        /\ lastCall' # None
        /\ lastCall'[1].outcome.ok
        /\ lastCall'[1].outcome.data.data = <<>>) =>
            /\ result' = "eos"
            /\ state' = "Exhausted"
            /\ fetches' = fetches
            /\ inflight' = <<>>]_vars

C27_Witness ==
    /\ state = "Exhausted"
    /\ result = "eos"
    /\ repeats = 0
    /\ yielded # <<>>
    /\ lastPage # None
    /\ lastPage[1].records = 0
    /\ FromZero
    /\ lastPage[1].pagination.total_count > Len(yielded)
    /\ ULess(offset(delegate), EffectiveLimit(delegate, limit))

\* C28: a consumer that keeps calling next() reaches end-of-sequence or a
\* fetch error whatever the server answers, because every successful fetch
\* of a page that holds records moves the offset forward (and fetching
\* stops at the effective limit).
C28_FetchAdvances ==
    [][(/\ state = "Fetching"
        /\ cancels' = cancels
        /\ lastCall' # None
        /\ lastCall'[1].outcome.ok
        /\ lastCall'[1].outcome.data.data # <<>>) =>
            ULess(offset(delegate), offset(delegate)')]_vars

\* C29: between next() calls, while the caller has not called set_offset
\* and every descriptor agreed with its page, the offset is the starting
\* offset plus the items yielded plus the items in the buffer; and the
\* buffer grows only from empty, by the whole page that was just fetched.
C29_Accounting ==
    /\ []((seeks = <<>> /\ consistent /\ state # "Fetching") =>
            offset(delegate) = UAdd(offset(new(params0)), U(Len(yielded) + Len(buffer))))
    /\ [][Len(buffer') > Len(buffer) =>
            /\ buffer = <<>>
            /\ state = "Fetching"
            /\ lastCall'[1].outcome.ok
            /\ yielded' \o buffer' = yielded \o lastCall'[1].outcome.data.data]_vars

C29_Witness ==
    /\ seeks = <<>>
    /\ consistent
    /\ state = "Buffered"
    /\ params0.index = Some(1)
    /\ fetches = 2
    /\ Len(yielded) = 3
    /\ Len(buffer) = 1
    /\ offset(delegate) = U(5)

\* C30: for every 64-bit signed total_count of a stored descriptor,
\* negative ones and ones above 2^31 included, total_items is a count from
\* 0 to 10,000.
C30_KnownTotalInRange ==
    (/\ call # <<>>
     /\ call.op = "total_items"
     /\ call.output # None) =>
        /\ call.output[1] # None
        /\ call.output[1][1].top = 0
        /\ call.output[1][1].low >= 0
        /\ call.output[1][1].low <= API_PAGINATION_RESULTS_LIMIT

C30_Witness ==
    /\ call # <<>>
    /\ call.op = "total_items"
    /\ call.input[1].total_count = Word(-1, -5)
    /\ call.output = Some(Some(U(API_PAGINATION_RESULTS_LIMIT)))

====
